---- MODULE Spec2Model ----
(***************************************************************************)
(* Controller of the worker cluster: the registry of pending/registered    *)
(* workers (controller.py), the heartbeat handler, the promotion endpoint, *)
(* the liveness monitor and the WebSocket connection manager               *)
(* (workers_websocket_manager.py).  Every action is one run of a handler   *)
(* or coroutine between two points where the asyncio event loop can        *)
(* switch tasks (a connect, a close of an open socket, a recv, a sleep).   *)
(***************************************************************************)
EXTENDS Integers, Sequences, FiniteSets, Bags, TLC

VARIABLES
  now,                 \* int(time.time()) of the controller
  pending_workers,     \* dict[str, WorkerHeartbeat]
  pending_order,       \* insertion order of the keys of pending_workers
  registered_workers,  \* dict[int, WorkerRegistration]
  registered_entries,  \* entry array of registered_workers (DictDummy = deleted)
  worker_id_counter,   \* global worker_id_counter
  explicit_calls,      \* number of register_worker calls made with an explicit id
  promotions,          \* register_worker calls suspended in connect_to_worker
  disconnects,         \* disconnect_worker calls suspended in a close()
  connections,         \* WorkersWebSocketManager.connections: id -> socket
  connection_tasks,    \* WorkersWebSocketManager.connection_tasks: id -> receive task
  sockets,             \* every socket opened so far, with its receive-loop task
  reconnect_tasks,     \* bag of running _reconnect_worker tasks
  monitor,             \* the monitor_worker_timestamp task
  callbacks,           \* WorkersWebSocketManager.worker_status_change_callbacks
  invocations,         \* the calls the subscribers have received, oldest first
  current_websocket,   \* WorkerWebSocketServer.current_websocket (0: None)
  websockets,          \* worker side: every connection handle_connection accepted
  self_worker_id,      \* worker side: Worker.worker_id, sent in every heartbeat
  heartbeat_task,      \* worker side: the heartbeat_task thread and its clock
  last                 \* the handler step taken last and its outcome

regVars == <<pending_workers, pending_order, registered_workers, registered_entries,
             worker_id_counter, explicit_calls>>
wsVars == <<connections, connection_tasks, sockets, reconnect_tasks>>
subVars == <<callbacks, invocations>>
serverVars == <<current_websocket, websockets, self_worker_id, heartbeat_task>>
vars == <<now, pending_workers, pending_order, registered_workers, registered_entries,
          worker_id_counter, explicit_calls, promotions, disconnects, connections,
          connection_tasks, sockets, reconnect_tasks, monitor, callbacks, invocations,
          current_websocket, websockets, self_worker_id, heartbeat_task, last>>

----------------------------------------------------------------------------
(* Bounds of the model *)
MaxIds == 1          \* promotions that draw an id from worker_id_counter (Spec, SpecApi)
MaxSockets == 2      \* successful connects (Spec)
RegistryMaxIds == 2  \* promotions of SpecRegistry
RaceMaxIds == 3      \* promotions of SpecRace
MaxExplicit == 1     \* register_worker calls with an explicit id (SpecApi)
MaxTime == 20        \* last clock value
MaxReconnectTasks == 2  \* _reconnect_worker tasks alive at once
MaxWebsockets == 2   \* connections the worker accepts (SpecWorker)
MaxFrames == 2       \* frames the worker receives on one connection (SpecWorker)
MaxLoopTime == 45    \* seconds of the worker's clock (SpecHeartbeatLoop)
MaxCallbacks == 3    \* subscribers of status changes (SpecNotify)
MaxPublishes == 2    \* status changes published (SpecNotify)

(* Program constants *)
heartbeat_interval == 5
monitor_interval == 10
timeout_threshold == 15
max_reconnect_attempts == 5

Serials == {"s1", "s2"}
OneSerial == {"s1"}
Planes == {"ethernet"}
Unassigned == 0 - 1
DictDummy == 0 - 2
SenderTimestamps == {99}
\* the planes and the timestamps of the heartbeats of SpecPayload; no reading of the
\* controller's clock is one of these timestamps
AllPlanes == {"ethernet", "wifi"}
ReporterTimestamps == {7, 99}
\* the plane names a switch_data_plane request can carry
RequestedPlanes == {"ethernet", "wifi", "WiFi", "bluetooth"}
ConnectOutcomes == {"ok", "timeout", "wserr", "oserr"}
SendOutcomes == {"sent", "error"}
\* seconds one call of _send_control_heartbeat can take
SendDurations == {0, 1, 2}
\* a subscriber of status changes either returns or raises an Exception
Subscribers == {"returns", "raises"}
\* the text frames a worker can receive, by what handle_connection makes of them
Frames == {"invalid_json", "not_object", "no_command", "empty_command", "unknown_command",
           "handled", "handler_raises", "update_worker_id"}

ACTIVE == "active"
RECONNECTING == "reconnecting"
INACTIVE == "inactive"
REGISTERED == "registered"
PENDING_REGISTRATION == "pending_registration"

----------------------------------------------------------------------------
(* Python dict helpers *)
Put(f, k, v) == [x \in (DOMAIN f) \cup {k} |-> IF x = k THEN v ELSE f[x]]
Del(f, k) == [x \in (DOMAIN f) \ {k} |-> f[x]]
EmptyDict == [x \in {} |-> 0]

RemoveKey(seq, k) == SelectSeq(seq, LAMBDA x : x # k)

\* entries array after d[k] = v: a new key is appended, an existing key keeps its slot
EntriesPut(entries, d, k) == IF k \in DOMAIN d THEN entries ELSE Append(entries, k)
\* entries array after del d[k]: the slot becomes a dummy
EntriesDel(entries, k) == [i \in DOMAIN entries |-> IF entries[i] = k THEN DictDummy ELSE entries[i]]

\* faulty variant for comparison: a worker reported INACTIVE is dropped from the registry
on_worker_status_change_drops(reg, worker_id, status) ==
  IF worker_id \in DOMAIN reg
  THEN IF status = INACTIVE THEN Del(reg, worker_id)
       ELSE [reg EXCEPT ![worker_id].status = status]
  ELSE reg

\* on_worker_status_change, the only subscriber of _notify_status_change
on_worker_status_change(reg, worker_id, status) ==
  IF worker_id \in DOMAIN reg THEN [reg EXCEPT ![worker_id].status = status] ELSE reg

\* the monitor task suspended in asyncio.sleep until time wake
MonitorAsleep(wake) ==
  [pc |-> "sleep", pos |-> 0, size |-> 0, left |-> 0, wid |-> Unassigned,
   threshold |-> 0, wake |-> wake]

----------------------------------------------------------------------------
Init ==
  /\ now = 0
  /\ pending_workers = EmptyDict
  /\ pending_order = <<>>
  /\ registered_workers = EmptyDict
  /\ registered_entries = <<>>
  /\ worker_id_counter = 0
  /\ explicit_calls = 0
  /\ promotions = {}
  /\ disconnects = {}
  /\ connections = EmptyDict
  /\ connection_tasks = EmptyDict
  /\ sockets = <<>>
  /\ reconnect_tasks = EmptyBag
  /\ monitor = MonitorAsleep(monitor_interval)
  /\ callbacks = <<>>
  /\ invocations = <<>>
  /\ current_websocket = 0
  /\ websockets = <<>>
  /\ self_worker_id = Unassigned
  /\ heartbeat_task = [pc |-> "send", clock |-> 0, sent |-> 0, last_start |-> Unassigned,
                       period |-> 0]
  /\ last = [op |-> "init", worker_id |-> Unassigned, serial |-> "", result |-> "ok"]

\* time.time() moves on
Tick ==
  /\ now + monitor_interval <= MaxTime
  /\ now' = now + monitor_interval
  /\ last' = [op |-> "tick", worker_id |-> Unassigned, serial |-> "", result |-> "ok"]
  /\ UNCHANGED <<regVars, wsVars, promotions, disconnects, monitor, subVars, serverVars>>

\* a stored time after the origin of the clock has moved on by monitor_interval;
\* a time of MaxTime or more before now stays that old (older than timeout_threshold)
Rebase(t) == IF t >= monitor_interval THEN t - monitor_interval ELSE 0

\* time.time() moves on beyond MaxTime: now is kept and every stored time is moved
\* back instead, which keeps every difference the code computes. The monitor is
\* asleep, so no pass is holding a threshold_time.
TickRebased ==
  /\ now + monitor_interval > MaxTime
  /\ monitor.pc \in {"sleep", "dead"}
  /\ pending_workers' = [s \in DOMAIN pending_workers |->
                           [pending_workers[s] EXCEPT !.timestamp = Rebase(@)]]
  /\ registered_workers' = [id \in DOMAIN registered_workers |->
                              [registered_workers[id] EXCEPT !.timestamp = Rebase(@)]]
  /\ promotions' = {[p EXCEPT !.registration.timestamp = Rebase(@)] : p \in promotions}
  /\ monitor' = [monitor EXCEPT !.wake = Rebase(@)]
  /\ last' = [op |-> "tick", worker_id |-> Unassigned, serial |-> "", result |-> "ok"]
  /\ UNCHANGED <<now, pending_order, registered_entries, worker_id_counter, explicit_calls,
                 disconnects, wsVars, subVars, serverVars>>

----------------------------------------------------------------------------
(* receive_heartbeat *)

\* index of the first live entry of registered_workers whose serial is s, 0 if none
FirstWithSerial(entries, reg, s) ==
  LET hits == {i \in DOMAIN entries : entries[i] # DictDummy /\ reg[entries[i]].serial = s}
  IN IF hits = {} THEN 0 ELSE CHOOSE i \in hits : \A j \in hits : i <= j

\* lines 50-53: the pending entry only gets a new timestamp
HeartbeatPendingKnown(pend, hb, t) == [pend EXCEPT ![hb.serial].timestamp = t]

\* faulty variant for comparison: the heartbeat is stored with the timestamp it came with
HeartbeatPendingNew_keeps(pend, hb, t) == Put(pend, hb.serial, hb)

\* lines 57-58: the heartbeat itself is stored, stamped with the controller's time
HeartbeatPendingNew(pend, hb, t) == Put(pend, hb.serial, [hb EXCEPT !.timestamp = t])

\* faulty variant for comparison: the loop has no break and deletes every registration of the serial
HeartbeatDropRegistered_all(reg, entries, s) ==
  [id \in {x \in DOMAIN reg : reg[x].serial # s} |-> reg[id]]

\* lines 60-66: the first registration of the same serial is deleted
HeartbeatDropRegistered(reg, entries, s) ==
  LET i == FirstWithSerial(entries, reg, s)
  IN IF i = 0 THEN reg ELSE Del(reg, entries[i])

HeartbeatDropEntries(reg, entries, s) ==
  LET i == FirstWithSerial(entries, reg, s)
  IN IF i = 0 THEN entries ELSE EntriesDel(entries, entries[i])

\* faulty variant for comparison: the timestamp is written to every registration
HeartbeatRegistered_all(reg, worker_id, t) == [id \in DOMAIN reg |-> [reg[id] EXCEPT !.timestamp = t]]

\* line 69: the registration only gets a new timestamp
HeartbeatRegistered(reg, worker_id, t) == [reg EXCEPT ![worker_id].timestamp = t]

receive_heartbeat(hb) ==
  /\ IF hb.worker_id = Unassigned
     THEN IF hb.serial \in DOMAIN pending_workers
          THEN /\ pending_workers' = HeartbeatPendingKnown(pending_workers, hb, now)
               /\ UNCHANGED <<pending_order, registered_workers, registered_entries>>
               /\ last' = [op |-> "heartbeat", worker_id |-> hb.worker_id,
                           serial |-> hb.serial, result |-> "ok",
                           data_plane |-> hb.data_plane, timestamp |-> hb.timestamp]
          ELSE /\ pending_workers' = HeartbeatPendingNew(pending_workers, hb, now)
               /\ pending_order' = Append(pending_order, hb.serial)
               /\ registered_workers' =
                    HeartbeatDropRegistered(registered_workers, registered_entries, hb.serial)
               /\ registered_entries' =
                    HeartbeatDropEntries(registered_workers, registered_entries, hb.serial)
               /\ last' = [op |-> "heartbeat", worker_id |-> hb.worker_id,
                           serial |-> hb.serial, result |-> "ok",
                           data_plane |-> hb.data_plane, timestamp |-> hb.timestamp]
     ELSE IF hb.worker_id \in DOMAIN registered_workers
          THEN /\ registered_workers' = HeartbeatRegistered(registered_workers, hb.worker_id, now)
               /\ UNCHANGED <<pending_workers, pending_order, registered_entries>>
               /\ last' = [op |-> "heartbeat", worker_id |-> hb.worker_id,
                           serial |-> "", result |-> "ok",
                           data_plane |-> hb.data_plane, timestamp |-> hb.timestamp]
          ELSE \* registered_workers[heartbeat.worker_id] raises KeyError
               /\ UNCHANGED <<pending_workers, pending_order, registered_workers,
                              registered_entries>>
               /\ last' = [op |-> "heartbeat", worker_id |-> hb.worker_id,
                           serial |-> "", result |-> "raise",
                           data_plane |-> hb.data_plane, timestamp |-> hb.timestamp]
  /\ UNCHANGED <<now, subVars, serverVars, worker_id_counter, explicit_calls, promotions, disconnects, wsVars, monitor>>

Heartbeat(serials, maxIds) ==
  \E id \in Unassigned .. (maxIds - 1), s \in serials, p \in Planes, ts \in SenderTimestamps :
    receive_heartbeat([worker_id |-> id, serial |-> s, data_plane |-> p, timestamp |-> ts])

\* the heartbeat of the worker with serial s1, as _send_control_heartbeat builds it:
\* it carries Worker.worker_id, which only _handle_update_worker_id changes
WorkerHeartbeat ==
  \E s \in OneSerial, p \in Planes, ts \in SenderTimestamps :
    receive_heartbeat([worker_id |-> self_worker_id, serial |-> s, data_plane |-> p,
                       timestamp |-> ts])

\* heartbeats of one unregistered or registered worker with any payload
HeartbeatPayload ==
  \E id \in Unassigned .. (MaxIds - 1), s \in OneSerial, p \in AllPlanes,
     ts \in ReporterTimestamps :
    receive_heartbeat([worker_id |-> id, serial |-> s, data_plane |-> p, timestamp |-> ts])

----------------------------------------------------------------------------
(* WorkersWebSocketManager: the state it owns, as one record                *)
(*   reg: registered_workers (written through on_worker_status_change),     *)
(*   conns, ctasks: connections and connection_tasks,                       *)
(*   socks: the sockets with their receive-loop tasks,                      *)
(*   rtasks: the _reconnect_worker tasks.                                   *)

ManagerState == [reg |-> registered_workers, conns |-> connections,
                 ctasks |-> connection_tasks, socks |-> sockets, rtasks |-> reconnect_tasks]

SetManagerState(S) ==
  /\ registered_workers' = S.reg
  /\ connections' = S.conns
  /\ connection_tasks' = S.ctasks
  /\ sockets' = S.socks
  /\ reconnect_tasks' = S.rtasks

\* _notify_status_change: every callback is awaited, none of them suspends
NotifyStatusChange(S, worker_id, status) ==
  [S EXCEPT !.reg = on_worker_status_change(S.reg, worker_id, status)]

\* faulty variant for comparison: the handle and the task are stored, no status is published
ConnectSucceeded_silent(S, worker_id) ==
  LET ws == Len(S.socks) + 1
  IN [S EXCEPT !.conns = Put(S.conns, worker_id, ws),
               !.ctasks = Put(S.ctasks, worker_id, ws),
               !.socks = Append(S.socks, [wid |-> worker_id, state |-> "open",
                                          pc |-> "recv", cancelled |-> FALSE])]

\* connect_to_worker, lines 32-37: the connect has returned a socket
ConnectSucceeded(S, worker_id) ==
  LET ws == Len(S.socks) + 1
      S1 == [S EXCEPT !.conns = Put(S.conns, worker_id, ws),
                      !.ctasks = Put(S.ctasks, worker_id, ws),
                      !.socks = Append(S.socks, [wid |-> worker_id, state |-> "open",
                                                 pc |-> "recv", cancelled |-> FALSE])]
  IN NotifyStatusChange(S1, worker_id, ACTIVE)

\* what the caller of connect_to_worker sees for an outcome of connect()
ConnectReturn(outcome) ==
  CASE outcome = "ok" -> "true"
    [] outcome = "timeout" -> "false"
    [] outcome = "wserr" -> "false"
    [] OTHER -> "raise"   \* OSError is neither TimeoutError nor WebSocketException

\* a new _reconnect_worker task; info is FALSE when worker is a bare int
NewReconnectTask(worker_id, info) ==
  [wid |-> worker_id, info |-> info, attempts |-> 0,
   pc |-> IF info THEN "connecting" ELSE "start"]

\* Task.cancel() on the receive task of socket t, called by task self (0: not a receive task)
CancelTask(socks, t, self) ==
  IF t = self \/ socks[t].pc = "done" THEN socks
  ELSE [socks EXCEPT ![t].cancelled = TRUE]

\* faulty variant for comparison: the receive task is cancelled but stays in connection_tasks
HandleDisconnectionTail_keeps_task(S, worker_id, info, reconnect, self) ==
  LET S1 == IF worker_id \in DOMAIN S.ctasks
            THEN [S EXCEPT !.socks = CancelTask(S.socks, S.ctasks[worker_id], self)]
            ELSE S
      S2 == IF reconnect THEN S1 ELSE NotifyStatusChange(S1, worker_id, INACTIVE)
  IN IF max_reconnect_attempts > 0
     THEN [NotifyStatusChange(S2, worker_id, RECONNECTING)
            EXCEPT !.rtasks = S2.rtasks (+) SetToBag({NewReconnectTask(worker_id, info)})]
     ELSE NotifyStatusChange(S2, worker_id, INACTIVE)

\* _handle_disconnection, lines 65-78
HandleDisconnectionTail(S, worker_id, info, reconnect, self) ==
  LET S1 == IF worker_id \in DOMAIN S.ctasks
            THEN [S EXCEPT !.socks = CancelTask(S.socks, S.ctasks[worker_id], self),
                           !.ctasks = Del(S.ctasks, worker_id)]
            ELSE S
      S2 == IF reconnect THEN S1 ELSE NotifyStatusChange(S1, worker_id, INACTIVE)
  IN IF max_reconnect_attempts > 0
     THEN [NotifyStatusChange(S2, worker_id, RECONNECTING)
            EXCEPT !.rtasks = S2.rtasks (+) SetToBag({NewReconnectTask(worker_id, info)})]
     ELSE NotifyStatusChange(S2, worker_id, INACTIVE)

\* _handle_disconnection, line 63 onwards: close() has returned
\* result: [S, raised]; del self.connections[worker_id] raises KeyError if the key is gone
HandleDisconnectionAfterClose(S, worker_id, info, reconnect, self) ==
  IF worker_id \in DOMAIN S.conns
  THEN [S |-> HandleDisconnectionTail([S EXCEPT !.conns = Del(S.conns, worker_id)],
                                      worker_id, info, reconnect, self),
        raised |-> FALSE]
  ELSE [S |-> S, raised |-> TRUE]

\* _handle_disconnection from its first line up to the first suspension
\* result: [S, suspended, raised]; close() of an open socket suspends the caller
HandleDisconnection(S, worker_id, info, reconnect, self) ==
  LET S1 == NotifyStatusChange(S, worker_id, INACTIVE)
  IN IF worker_id \in DOMAIN S1.conns
     THEN IF S1.socks[S1.conns[worker_id]].state = "open"
          THEN [S |-> [S1 EXCEPT !.socks[S1.conns[worker_id]].state = "closed"],
                suspended |-> TRUE, raised |-> FALSE]
          ELSE [S |-> HandleDisconnectionAfterClose(S1, worker_id, info, reconnect, self).S,
                suspended |-> FALSE, raised |-> FALSE]
     ELSE [S |-> HandleDisconnectionTail(S1, worker_id, info, reconnect, self),
           suspended |-> FALSE, raised |-> FALSE]

RoomForReconnectTask == BagCardinality(reconnect_tasks) < MaxReconnectTasks

----------------------------------------------------------------------------
(* register_worker_endpoint and register_worker *)

\* faulty variant for comparison: the worker id is drawn before the serial is looked up
RejectUnknownSerial_burns_id(s) ==
  /\ last' = [op |-> "register", worker_id |-> Unassigned, serial |-> s, result |-> "unknown"]
  /\ worker_id_counter' = worker_id_counter + 1
  /\ UNCHANGED <<now, subVars, serverVars, pending_workers, pending_order, registered_workers, registered_entries,
                 explicit_calls, promotions, disconnects, wsVars, monitor>>

\* lines 89-91: the serial is not pending
RejectUnknownSerial(s) ==
  /\ last' = [op |-> "register", worker_id |-> Unassigned, serial |-> s, result |-> "unknown"]
  /\ UNCHANGED <<now, subVars, serverVars, regVars, promotions, disconnects, wsVars, monitor>>

\* lines 130-135: the id of the new registration and the counter after it
AssignedId(counter, explicit) == IF explicit < 0 THEN counter ELSE explicit
CounterAfter(counter, explicit) == IF explicit < 0 THEN counter + 1 ELSE counter

\* lines 137-146
NewRegistration(hb, t) ==
  [serial |-> hb.serial, data_plane |-> hb.data_plane, timestamp |-> t, status |-> ACTIVE]

\* register_worker up to the await of connect_to_worker (lines 126-155)
RegisterWorkerStart(hb, explicit) ==
  /\ promotions' = promotions \cup
       {[call |-> worker_id_counter + explicit_calls,
         worker_id |-> AssignedId(worker_id_counter, explicit),
         serial |-> hb.serial,
         registration |-> NewRegistration(hb, now)]}
  /\ worker_id_counter' = CounterAfter(worker_id_counter, explicit)
  /\ explicit_calls' = IF explicit < 0 THEN explicit_calls ELSE explicit_calls + 1
  /\ last' = [op |-> "register_start", worker_id |-> AssignedId(worker_id_counter, explicit),
              serial |-> hb.serial, result |-> "await"]
  /\ UNCHANGED <<now, subVars, serverVars, pending_workers, pending_order, registered_workers, registered_entries,
                 disconnects, wsVars, monitor>>

register_worker_endpoint(s, maxIds) ==
  IF s \notin DOMAIN pending_workers
  THEN RejectUnknownSerial(s)
  ELSE /\ worker_id_counter < maxIds
       /\ RegisterWorkerStart(pending_workers[s], Unassigned)

\* lines 160-161 on the registry: the registration is stored, the pending entry deleted
StoreRegistration(reg, p) == Put(reg, p.worker_id, p.registration)
DropPending(pend, s) == Del(pend, s)

\* register_worker after connect_to_worker has returned (lines 157-167)
RegisterWorkerDone(p, outcome, maxSockets) ==
  /\ p \in promotions
  /\ outcome = "ok" => Len(sockets) < maxSockets
  /\ promotions' = promotions \ {p}
  /\ IF ConnectReturn(outcome) = "true"
     THEN LET S == ConnectSucceeded(ManagerState, p.worker_id)
          IN /\ SetManagerState([S EXCEPT !.reg = StoreRegistration(S.reg, p)])
             /\ registered_entries' = EntriesPut(registered_entries, registered_workers, p.worker_id)
             /\ IF p.serial \in DOMAIN pending_workers
                THEN /\ pending_workers' = DropPending(pending_workers, p.serial)
                     /\ pending_order' = RemoveKey(pending_order, p.serial)
                     /\ last' = [op |-> "register", worker_id |-> p.worker_id,
                                 serial |-> p.serial, result |-> "success"]
                ELSE \* del pending_workers[heartbeat.serial] raises KeyError
                     /\ UNCHANGED <<pending_workers, pending_order>>
                     /\ last' = [op |-> "register", worker_id |-> p.worker_id,
                                 serial |-> p.serial, result |-> "raise"]
     ELSE /\ UNCHANGED <<pending_workers, pending_order, registered_workers,
                         registered_entries, wsVars>>
          /\ last' = [op |-> "register", worker_id |-> p.worker_id, serial |-> p.serial,
                      result |-> IF ConnectReturn(outcome) = "false" THEN "fail" ELSE "raise"]
  /\ UNCHANGED <<now, subVars, serverVars, worker_id_counter, explicit_calls, disconnects, monitor>>

RegisterEndpoint(serials, maxIds) == \E s \in serials : register_worker_endpoint(s, maxIds)

RegisterDone(maxSockets) ==
  \E p \in promotions, o \in ConnectOutcomes : RegisterWorkerDone(p, o, maxSockets)

\* register_worker called with an explicit worker id
RegisterExplicit ==
  \E s \in DOMAIN pending_workers, id \in 0 .. (MaxIds - 1) :
    /\ explicit_calls < MaxExplicit
    /\ RegisterWorkerStart(pending_workers[s], id)

----------------------------------------------------------------------------
(* sockets, receive loops and reconnection tasks *)

\* the peer or the network closes socket w
SocketLost(w) ==
  /\ sockets[w].state = "open"
  /\ sockets' = [sockets EXCEPT ![w].state = "closed"]
  /\ last' = [op |-> "socket_lost", worker_id |-> sockets[w].wid, serial |-> "", result |-> "ok"]
  /\ UNCHANGED <<now, subVars, serverVars, regVars, promotions, disconnects, connections, connection_tasks, reconnect_tasks,
                 monitor>>

\* _receive_loop: recv() raises ConnectionClosed or CancelledError, finally runs
ReceiveLoopExit(w) ==
  /\ sockets[w].pc = "recv"
  /\ sockets[w].state = "closed" \/ sockets[w].cancelled
  /\ RoomForReconnectTask
  /\ LET S0 == [ManagerState EXCEPT !.socks[w].cancelled = FALSE]
         r == HandleDisconnection(S0, sockets[w].wid, TRUE, TRUE, w)
     IN SetManagerState([r.S EXCEPT !.socks[w].pc = IF r.suspended THEN "closing" ELSE "done"])
  /\ last' = [op |-> "receive_loop_exit", worker_id |-> sockets[w].wid, serial |-> "",
              result |-> "ok"]
  /\ UNCHANGED <<now, subVars, serverVars, pending_workers, pending_order, registered_entries, worker_id_counter,
                 explicit_calls, promotions, disconnects, monitor>>

\* _receive_loop: the close() awaited inside _handle_disconnection returns.
\* A receive loop suspends there only when the stored socket of its worker id is
\* another, open socket, which takes a cancelled receive loop and a reconnection
\* that succeeds before that loop runs (SpecManager).
ReceiveLoopClosed(w) ==
  /\ sockets[w].pc = "closing"
  /\ RoomForReconnectTask
  /\ IF sockets[w].cancelled
     THEN \* CancelledError is raised at the await and ends the task
          /\ sockets' = [sockets EXCEPT ![w].pc = "done", ![w].cancelled = FALSE]
          /\ UNCHANGED <<registered_workers, connections, connection_tasks, reconnect_tasks>>
          /\ last' = [op |-> "receive_loop_closed", worker_id |-> sockets[w].wid,
                      serial |-> "", result |-> "cancelled"]
     ELSE LET r == HandleDisconnectionAfterClose(ManagerState, sockets[w].wid, TRUE, TRUE, w)
          IN /\ SetManagerState([r.S EXCEPT !.socks[w].pc = "done"])
             /\ last' = [op |-> "receive_loop_closed", worker_id |-> sockets[w].wid,
                         serial |-> "", result |-> IF r.raised THEN "raise" ELSE "ok"]
  /\ UNCHANGED <<now, subVars, serverVars, pending_workers, pending_order, registered_entries, worker_id_counter,
                 explicit_calls, promotions, disconnects, monitor>>

\* _reconnect_worker, first step of a task whose worker is a bare int:
\* connect_to_worker reads worker.control_ip and raises AttributeError
ReconnectStart(t) ==
  /\ t.pc = "start"
  /\ reconnect_tasks' = reconnect_tasks (-) SetToBag({t})
  /\ last' = [op |-> "reconnect_start", worker_id |-> t.wid, serial |-> "", result |-> "raise"]
  /\ UNCHANGED <<now, subVars, serverVars, regVars, promotions, disconnects, connections, connection_tasks, sockets, monitor>>

\* _reconnect_worker, lines 87-92: connect_to_worker has returned
ReconnectAttemptDone(t, outcome) ==
  /\ t.pc = "connecting"
  /\ outcome = "ok" => Len(sockets) < MaxSockets
  /\ LET S0 == [ManagerState EXCEPT !.rtasks = reconnect_tasks (-) SetToBag({t})]
     IN CASE ConnectReturn(outcome) = "true" ->
               SetManagerState(ConnectSucceeded(S0, t.wid))
          [] ConnectReturn(outcome) = "false" ->
               SetManagerState([S0 EXCEPT !.rtasks = S0.rtasks (+)
                  SetToBag({[t EXCEPT !.attempts = t.attempts + 1, !.pc = "sleeping"]})])
          [] OTHER -> SetManagerState(S0)
  /\ last' = [op |-> "reconnect_attempt", worker_id |-> t.wid, serial |-> "",
              result |-> ConnectReturn(outcome)]
  /\ UNCHANGED <<now, subVars, serverVars, pending_workers, pending_order, registered_entries, worker_id_counter,
                 explicit_calls, promotions, disconnects, monitor>>

\* _reconnect_worker, lines 85 and 93-94: the sleep is over
ReconnectWake(t) ==
  /\ t.pc = "sleeping"
  /\ LET S0 == [ManagerState EXCEPT !.rtasks = reconnect_tasks (-) SetToBag({t})]
     IN IF t.attempts < max_reconnect_attempts
        THEN /\ SetManagerState([S0 EXCEPT !.rtasks = S0.rtasks (+)
                                   SetToBag({[t EXCEPT !.pc = "connecting"]})])
             /\ last' = [op |-> "reconnect_wake", worker_id |-> t.wid, serial |-> "",
                         result |-> "retry"]
        ELSE /\ SetManagerState(NotifyStatusChange(S0, t.wid, INACTIVE))
             /\ last' = [op |-> "reconnect_wake", worker_id |-> t.wid, serial |-> "",
                         result |-> "exhausted"]
  /\ UNCHANGED <<now, subVars, serverVars, pending_workers, pending_order, registered_entries, worker_id_counter,
                 explicit_calls, promotions, disconnects, monitor>>

----------------------------------------------------------------------------
(* send_command, disconnect_worker *)

\* faulty variant for comparison: a command for a worker without a stored connection is
\* handled as a lost connection
send_command_disconnects(w, outcome) ==
  /\ w \notin DOMAIN connections
  /\ RoomForReconnectTask
  /\ SetManagerState(HandleDisconnection(ManagerState, w, TRUE, TRUE, 0).S)
  /\ last' = [op |-> "send_command", worker_id |-> w, serial |-> "", result |-> "no_connection"]
  /\ UNCHANGED <<now, subVars, serverVars, pending_workers, pending_order, registered_entries, worker_id_counter,
                 explicit_calls, promotions, disconnects, monitor>>

\* send_command called with a WorkerControlInfo of worker w; outcome is what
\* json.dumps and ws.send do on a socket that is open
send_command(w, outcome) ==
  /\ IF w \notin DOMAIN connections
     THEN \* lines 107-109
          /\ UNCHANGED <<registered_workers, wsVars>>
          /\ last' = [op |-> "send_command", worker_id |-> w, serial |-> "",
                      result |-> "no_connection"]
     ELSE IF sockets[connections[w]].state = "closed"
     THEN \* lines 116-119: ws.send raises ConnectionClosed
          /\ RoomForReconnectTask
          /\ SetManagerState(HandleDisconnection(ManagerState, w, TRUE, TRUE, 0).S)
          /\ last' = [op |-> "send_command", worker_id |-> w, serial |-> "",
                      result |-> "closed"]
     ELSE \* lines 113-115, or lines 120-122 for any other exception
          /\ UNCHANGED <<registered_workers, wsVars>>
          /\ last' = [op |-> "send_command", worker_id |-> w, serial |-> "",
                      result |-> IF outcome = "sent" THEN "true" ELSE "error"]
  /\ UNCHANGED <<now, subVars, serverVars, pending_workers, pending_order, registered_entries, worker_id_counter,
                 explicit_calls, promotions, disconnects, monitor>>

SendCommand(maxIds) == \E w \in 0 .. (maxIds - 1), o \in SendOutcomes : send_command(w, o)

\* plane.lower()
Lower(plane) == IF plane = "WiFi" THEN "wifi" ELSE plane

\* send_command called by switch_data_plane, up to line 109: worker is a
\* WorkerRegistration, which has no field worker_id, so reading worker.worker_id
\* raises AttributeError before anything is sent
SendToRegistration(worker) ==
  IF "worker_id" \notin DOMAIN worker THEN "raise"
  ELSE IF worker.worker_id \notin DOMAIN connections THEN "false"
  ELSE "true"

\* switch_data_plane(worker_id, plane)
switch_data_plane(w, plane) ==
  /\ IF w \notin DOMAIN registered_workers
     THEN /\ UNCHANGED registered_workers
          /\ last' = [op |-> "switch_data_plane", worker_id |-> w, serial |-> "",
                      result |-> "unknown", plane |-> plane]
     ELSE IF Lower(plane) \notin AllPlanes
     THEN /\ UNCHANGED registered_workers
          /\ last' = [op |-> "switch_data_plane", worker_id |-> w, serial |-> "",
                      result |-> "invalid", plane |-> plane]
     ELSE LET success == SendToRegistration(registered_workers[w])
          IN CASE success = "true" ->
                    /\ registered_workers' =
                         [registered_workers EXCEPT ![w].data_plane = Lower(plane)]
                    /\ last' = [op |-> "switch_data_plane", worker_id |-> w, serial |-> "",
                                result |-> "success", plane |-> plane]
               [] success = "false" ->
                    /\ UNCHANGED registered_workers
                    /\ last' = [op |-> "switch_data_plane", worker_id |-> w, serial |-> "",
                                result |-> "fail", plane |-> plane]
               [] OTHER ->
                    /\ UNCHANGED registered_workers
                    /\ last' = [op |-> "switch_data_plane", worker_id |-> w, serial |-> "",
                                result |-> "raise", plane |-> plane]
  /\ UNCHANGED <<now, subVars, serverVars, pending_workers, pending_order, registered_entries,
                 worker_id_counter, explicit_calls, promotions, disconnects, wsVars, monitor>>

SwitchDataPlane(maxIds) ==
  \E w \in 0 .. (maxIds - 1), plane \in RequestedPlanes : switch_data_plane(w, plane)

\* disconnect_worker(worker), lines 129-132; info is FALSE when worker is a bare int
\* (disconnect_all).  The close() of line 131 suspends the call on an open socket.
disconnect_worker(w, info) ==
  /\ w \in DOMAIN connections
  /\ RoomForReconnectTask
  /\ \A d \in disconnects : d.wid # w
  /\ IF sockets[connections[w]].state = "open"
     THEN /\ sockets' = [sockets EXCEPT ![connections[w]].state = "closed"]
          /\ disconnects' = disconnects \cup {[wid |-> w, info |-> info, pc |-> "close"]}
          /\ UNCHANGED <<registered_workers, connections, connection_tasks, reconnect_tasks>>
          /\ last' = [op |-> "disconnect_worker", worker_id |-> w, serial |-> "",
                      result |-> "await"]
     ELSE /\ SetManagerState(HandleDisconnection(ManagerState, w, info, FALSE, 0).S)
          /\ UNCHANGED disconnects
          /\ last' = [op |-> "disconnect_worker", worker_id |-> w, serial |-> "",
                      result |-> "ok"]
  /\ UNCHANGED <<now, subVars, serverVars, pending_workers, pending_order, registered_entries, worker_id_counter,
                 explicit_calls, promotions, monitor>>

DisconnectWorker(maxIds) == \E w \in 0 .. (maxIds - 1), info \in BOOLEAN : disconnect_worker(w, info)

\* disconnect_worker: a close() it awaits returns, at line 131 (pc "close") or inside
\* _handle_disconnection at line 60 (pc "handle")
DisconnectWorkerClosed(d) ==
  /\ d \in disconnects
  /\ RoomForReconnectTask
  /\ IF d.pc = "close"
     THEN LET r == HandleDisconnection(ManagerState, d.wid, d.info, FALSE, 0)
          IN /\ SetManagerState(r.S)
             /\ disconnects' = IF r.suspended
                               THEN (disconnects \ {d}) \cup {[d EXCEPT !.pc = "handle"]}
                               ELSE disconnects \ {d}
             /\ last' = [op |-> "disconnect_closed", worker_id |-> d.wid, serial |-> "",
                         result |-> IF r.suspended THEN "await" ELSE "ok"]
     ELSE LET h == HandleDisconnectionAfterClose(ManagerState, d.wid, d.info, FALSE, 0)
          IN /\ SetManagerState(h.S)
             /\ disconnects' = disconnects \ {d}
             /\ last' = [op |-> "disconnect_closed", worker_id |-> d.wid, serial |-> "",
                         result |-> IF h.raised THEN "raise" ELSE "ok"]
  /\ UNCHANGED <<now, subVars, serverVars, pending_workers, pending_order, registered_entries, worker_id_counter,
                 explicit_calls, promotions, monitor>>

----------------------------------------------------------------------------
(* _notify_status_change with any list of subscribers; NotifyStatusChange above is *)
(* its effect with the one subscriber async_main registers                        *)

\* the call subscriber i receives
Invocation(i, worker_id, status) == [subscriber |-> i, worker_id |-> worker_id, status |-> status]

\* faulty variant for comparison: the try block is around the loop, the first exception ends it
RECURSIVE NotifyFrom_stops(_, _, _, _)
NotifyFrom_stops(cbs, i, worker_id, status) ==
  IF i > Len(cbs) THEN <<>>
  ELSE IF cbs[i] = "raises" THEN <<Invocation(i, worker_id, status)>>
  ELSE <<Invocation(i, worker_id, status)>> \o NotifyFrom_stops(cbs, i + 1, worker_id, status)

\* lines 98-102: the calls made from subscriber i on; an exception of a subscriber
\* is caught inside the loop, which goes on
RECURSIVE NotifyFrom(_, _, _, _)
NotifyFrom(cbs, i, worker_id, status) ==
  IF i > Len(cbs) THEN <<>>
  ELSE <<Invocation(i, worker_id, status)>> \o NotifyFrom(cbs, i + 1, worker_id, status)

\* register_status_change_callback
RegisterCallback(cb) ==
  /\ Len(callbacks) < MaxCallbacks
  /\ callbacks' = Append(callbacks, cb)
  /\ last' = [op |-> "subscribe", worker_id |-> Unassigned, serial |-> "", result |-> cb]
  /\ UNCHANGED <<now, regVars, promotions, disconnects, wsVars, monitor, invocations,
                 serverVars>>

\* _notify_status_change(worker, status)
PublishStatus(worker_id, status) ==
  /\ Len(invocations) + Len(callbacks) <= MaxPublishes * MaxCallbacks
  /\ invocations' = invocations \o NotifyFrom(callbacks, 1, worker_id, status)
  /\ last' = [op |-> "publish", worker_id |-> worker_id, serial |-> "", result |-> "returned",
              status |-> status]
  /\ UNCHANGED <<now, regVars, promotions, disconnects, wsVars, monitor, callbacks,
                 serverVars>>

----------------------------------------------------------------------------
(* WorkerWebSocketServer.handle_connection (worker side) *)

\* the commands Worker._setup_fastapi_routes registers with register_handler
command_handlers == {"switch_to_ethernet", "switch_to_wifi", "update_worker_id"}

\* line 27: json.loads gives a JSON object
IsObject(f) == f \notin {"invalid_json", "not_object"}

\* line 28: payload.get("command", "") of the frames that are JSON objects
Command(f) ==
  CASE f \in {"no_command", "empty_command"} -> ""
    [] f = "unknown_command" -> "reboot"
    [] f = "handled" -> "switch_to_ethernet"
    [] f = "handler_raises" -> "switch_to_wifi"
    [] f = "update_worker_id" -> "update_worker_id"

\* line 29: payload.get("data", {}), as text
Data(f) ==
  CASE f = "handler_raises" -> "5"
    [] f = "update_worker_id" -> "{worker_id: 0}"
    [] OTHER -> "{}"

\* _handle_update_worker_id: the worker id carried by the update_worker_id frame
UpdatedWorkerId == 0

\* handle_switch_to_wifi calls data.get on a value that is not a dict
HandlerRaises(f) == f = "handler_raises"

\* faulty variant for comparison: a command without a handler is looked up all the same
HandlerCalled_any(f) == IsObject(f) /\ Command(f) # ""

\* lines 30-35: the frame names a registered command, whose handler is awaited
HandlerCalled(f) == IsObject(f) /\ Command(f) # "" /\ Command(f) \in command_handlers

\* lines 26-45: an exception leaves the while loop unless it is the JSONDecodeError
\* of line 38; payload.get on a JSON value that is not an object raises
\* AttributeError, a handler raises whatever it raises
FrameEndsLoop(f) == f = "not_object" \/ (HandlerCalled(f) /\ HandlerRaises(f))

\* lines 46-48: the finally block
ConnectionFinished(conn) == [conn EXCEPT !.state = "closed", !.pc = "done"]

\* lines 18-19: a connection is accepted and becomes the current one
AcceptConnection ==
  /\ Len(websockets) < MaxWebsockets
  /\ websockets' = Append(websockets, [state |-> "open", pc |-> "receive",
                                       frames |-> <<>>, handled |-> 0, calls |-> <<>>])
  /\ current_websocket' = Len(websockets) + 1
  /\ UNCHANGED self_worker_id
  /\ last' = [op |-> "ws_accept", worker_id |-> Unassigned, serial |-> "", result |-> "ok",
              websocket |-> Len(websockets) + 1]
  /\ UNCHANGED <<now, regVars, promotions, disconnects, wsVars, monitor, subVars,
                 heartbeat_task>>

\* lines 24-45: one frame is received on connection c and dispatched
DispatchFrame(c, f) ==
  /\ websockets[c].pc = "receive"
  /\ websockets[c].state = "open"
  /\ Len(websockets[c].frames) < MaxFrames
  /\ LET conn == [websockets[c] EXCEPT
                    !.frames = Append(@, f),
                    !.handled = IF HandlerCalled(f) THEN @ + 1 ELSE @,
                    !.calls = IF HandlerCalled(f)
                              THEN Append(@, [command |-> Command(f), data |-> Data(f)])
                              ELSE @]
     IN IF FrameEndsLoop(f)
        THEN /\ websockets' = [websockets EXCEPT ![c] = ConnectionFinished(conn)]
             /\ current_websocket' = 0
        ELSE /\ websockets' = [websockets EXCEPT ![c] = conn]
             /\ UNCHANGED current_websocket
  /\ self_worker_id' = IF f = "update_worker_id" THEN UpdatedWorkerId ELSE self_worker_id
  /\ last' = [op |-> "ws_frame", worker_id |-> Unassigned, serial |-> "", result |-> f,
              websocket |-> c]
  /\ UNCHANGED <<now, regVars, promotions, disconnects, wsVars, monitor, subVars,
                 heartbeat_task>>

\* lines 40-48: the controller's end closes connection c, receive_text raises
\* WebSocketDisconnect
PeerDisconnects(c) ==
  /\ websockets[c].pc = "receive"
  /\ websockets[c].state = "open"
  /\ websockets' = [websockets EXCEPT ![c] = ConnectionFinished(@)]
  /\ current_websocket' = 0
  /\ UNCHANGED self_worker_id
  /\ last' = [op |-> "ws_disconnect", worker_id |-> Unassigned, serial |-> "", result |-> "ok",
              websocket |-> c]
  /\ UNCHANGED <<now, regVars, promotions, disconnects, wsVars, monitor, subVars,
                 heartbeat_task>>

----------------------------------------------------------------------------
(* Worker._start_heartbeat_loop: the heartbeat_task thread, until stop_heartbeat is set *)

\* lines 123-126: an iteration starts and _send_control_heartbeat returns after d
\* seconds, True or False (it catches every exception itself)
SendControlHeartbeat(d) ==
  /\ heartbeat_task.pc = "send"
  /\ heartbeat_task.clock + d + 2 * heartbeat_interval <= MaxLoopTime
  /\ heartbeat_task' =
       [pc |-> "sleep",
        clock |-> heartbeat_task.clock + d,
        sent |-> heartbeat_task.sent + 1,
        last_start |-> heartbeat_task.clock,
        period |-> IF heartbeat_task.sent = 0 THEN 0
                   ELSE heartbeat_task.clock - heartbeat_task.last_start]
  /\ last' = [op |-> "heartbeat_send", worker_id |-> self_worker_id, serial |-> "",
              result |-> "ok"]
  /\ UNCHANGED <<now, regVars, promotions, disconnects, wsVars, monitor, subVars,
                 current_websocket, websockets, self_worker_id>>

\* line 134: time.sleep(interval), at the end of the try block
HeartbeatSleep ==
  /\ heartbeat_task.pc = "sleep"
  /\ heartbeat_task' = [heartbeat_task EXCEPT !.pc = "wait",
                                               !.clock = @ + heartbeat_interval]
  /\ last' = [op |-> "heartbeat_sleep", worker_id |-> self_worker_id, serial |-> "",
              result |-> "ok"]
  /\ UNCHANGED <<now, regVars, promotions, disconnects, wsVars, monitor, subVars,
                 current_websocket, websockets, self_worker_id>>

\* line 139: stop_heartbeat.wait(interval), after the try statement
HeartbeatWait ==
  /\ heartbeat_task.pc = "wait"
  /\ heartbeat_task' = [heartbeat_task EXCEPT !.pc = "send",
                                               !.clock = @ + heartbeat_interval]
  /\ last' = [op |-> "heartbeat_wait", worker_id |-> self_worker_id, serial |-> "",
              result |-> "ok"]
  /\ UNCHANGED <<now, regVars, promotions, disconnects, wsVars, monitor, subVars,
                 current_websocket, websockets, self_worker_id>>

----------------------------------------------------------------------------
(* monitor_worker_timestamp *)

\* the pending entries a pass finds timed out, first in dict order first
StalePending(pend, order, threshold_time) ==
  SelectSeq(order, LAMBDA k : pend[k].timestamp < threshold_time)

\* next live slot of a dict entry array after slot pos, 0 if none
NextLive(entries, pos) ==
  LET live == {i \in DOMAIN entries : i > pos /\ entries[i] # DictDummy}
  IN IF live = {} THEN 0 ELSE CHOOSE i \in live : \A j \in live : i <= j

MonitorDead(m) == [m EXCEPT !.pc = "dead"]

\* faulty variant for comparison: every worker that is not ACTIVE is reconnected
MonitorReconnects_any(registration) == registration.status # ACTIVE

\* line 202: the test of the elif branch, on a registration that is not timed out
MonitorReconnects(registration) == registration.status = INACTIVE

\* the for loop over registered_workers.items() from the slot after m.pos up to the
\* next suspension, the end of the loop, or the RuntimeError of the dict iterator
RECURSIVE MonitorScan(_, _, _, _)
MonitorScan(S, m, entries, t) ==
  IF Cardinality(DOMAIN S.reg) # m.size
  THEN [S |-> S, monitor |-> MonitorDead(m)]      \* dictionary changed size during iteration
  ELSE LET i == NextLive(entries, m.pos)
       IN IF i = 0
          THEN [S |-> S, monitor |-> MonitorAsleep(t + monitor_interval)]
          ELSE IF m.left = 0
          THEN [S |-> S, monitor |-> MonitorDead(m)]  \* dictionary keys changed during iteration
          ELSE LET wid == entries[i]
                   m1 == [m EXCEPT !.pos = i, !.left = m.left - 1, !.wid = wid]
               IN IF S.reg[wid].timestamp < m.threshold
                  THEN LET r == HandleDisconnection([S EXCEPT !.reg[wid].status = INACTIVE],
                                                    wid, FALSE, FALSE, 0)
                       IN IF r.suspended
                          THEN [S |-> r.S, monitor |-> [m1 EXCEPT !.pc = "closing"]]
                          ELSE MonitorScan(r.S, m1, entries, t)
                  ELSE IF MonitorReconnects(S.reg[wid])
                       THEN [S |-> S, monitor |-> [m1 EXCEPT !.pc = "connecting"]]
                       ELSE MonitorScan(S, m1, entries, t)

\* one pass starts: lines 186-191, then the loop over the registered workers
MonitorWake ==
  /\ monitor.pc = "sleep"
  /\ now >= monitor.wake
  /\ RoomForReconnectTask
  /\ LET threshold_time == now - timeout_threshold
         stale == StalePending(pending_workers, pending_order, threshold_time)
     IN IF stale # <<>>
        THEN \* the first stale entry is deleted, the next step of the iterator raises
             /\ pending_workers' = Del(pending_workers, Head(stale))
             /\ pending_order' = RemoveKey(pending_order, Head(stale))
             /\ monitor' = MonitorDead(monitor)
             /\ last' = [op |-> "monitor", worker_id |-> Unassigned, serial |-> Head(stale),
                         result |-> "raise"]
             /\ UNCHANGED <<registered_workers, wsVars>>
        ELSE LET m0 == [monitor EXCEPT !.pc = "loop", !.pos = 0,
                                       !.size = Cardinality(DOMAIN registered_workers),
                                       !.left = Cardinality(DOMAIN registered_workers),
                                       !.threshold = threshold_time]
                 r == MonitorScan(ManagerState, m0, registered_entries, now)
             IN /\ SetManagerState(r.S)
                /\ monitor' = r.monitor
                /\ last' = [op |-> "monitor", worker_id |-> r.monitor.wid, serial |-> "",
                            result |-> IF r.monitor.pc = "dead" THEN "raise" ELSE "ok"]
                /\ UNCHANGED <<pending_workers, pending_order>>
  /\ UNCHANGED <<now, subVars, serverVars, registered_entries, worker_id_counter, explicit_calls, promotions, disconnects>>

\* the close() awaited in _handle_disconnection returns to the monitor (line 199)
MonitorClosed ==
  /\ monitor.pc = "closing"
  /\ RoomForReconnectTask
  /\ LET h == HandleDisconnectionAfterClose(ManagerState, monitor.wid, FALSE, FALSE, 0)
         r == MonitorScan(h.S, monitor, registered_entries, now)
     IN /\ SetManagerState(r.S)
        /\ monitor' = r.monitor
        /\ last' = [op |-> "monitor_closed", worker_id |-> monitor.wid, serial |-> "",
                    result |-> IF r.monitor.pc = "dead" THEN "raise"
                               ELSE IF h.raised THEN "caught" ELSE "ok"]
  /\ UNCHANGED <<now, subVars, serverVars, pending_workers, pending_order, registered_entries, worker_id_counter,
                 explicit_calls, promotions, disconnects>>

\* connect_to_worker returns to the monitor (line 212)
MonitorConnectDone(outcome) ==
  /\ monitor.pc = "connecting"
  /\ RoomForReconnectTask
  /\ outcome = "ok" => Len(sockets) < MaxSockets
  /\ LET S1 == IF ConnectReturn(outcome) = "true"
               THEN ConnectSucceeded(ManagerState, monitor.wid)
               ELSE ManagerState
         r == MonitorScan(S1, monitor, registered_entries, now)
     IN /\ SetManagerState(r.S)
        /\ monitor' = r.monitor
        /\ last' = [op |-> "monitor_connect", worker_id |-> monitor.wid, serial |-> "",
                    result |-> IF r.monitor.pc = "dead" THEN "raise"
                               ELSE IF ConnectReturn(outcome) = "raise" THEN "caught"
                               ELSE ConnectReturn(outcome)]
  /\ UNCHANGED <<now, subVars, serverVars, pending_workers, pending_order, registered_entries, worker_id_counter,
                 explicit_calls, promotions, disconnects>>

----------------------------------------------------------------------------
Next ==
  \/ Tick
  \/ Heartbeat(OneSerial, MaxIds)
  \/ RegisterEndpoint(OneSerial, MaxIds)
  \/ RegisterDone(MaxSockets)
  \/ \E w \in DOMAIN sockets : SocketLost(w)
  \/ \E w \in DOMAIN sockets : ReceiveLoopExit(w)
  \/ \E t \in BagToSet(reconnect_tasks) : ReconnectStart(t)
  \/ \E t \in BagToSet(reconnect_tasks), o \in ConnectOutcomes : ReconnectAttemptDone(t, o)
  \/ \E t \in BagToSet(reconnect_tasks) : ReconnectWake(t)
  \/ MonitorWake
  \/ MonitorClosed
  \/ \E o \in ConnectOutcomes : MonitorConnectDone(o)

Spec == Init /\ [][Next]_vars

\* the registry under heartbeats, promotions and monitor passes; the receive loops
\* and the reconnection tasks are not scheduled and no socket is lost, so every
\* promotion opens at most one socket
RegistryStep(serials, maxIds) ==
  \/ Tick
  \/ Heartbeat(serials, maxIds)
  \/ RegisterEndpoint(serials, maxIds)
  \/ RegisterDone(maxIds)
  \/ \E t \in BagToSet(reconnect_tasks) : ReconnectStart(t)
  \/ MonitorWake
  \/ MonitorClosed

\* two workers
NextRegistry == RegistryStep(Serials, RegistryMaxIds)

SpecRegistry == Init /\ [][NextRegistry]_vars

\* one worker, promoted again and again
NextRace == RegistryStep(OneSerial, RaceMaxIds)

SpecRace == Init /\ [][NextRace]_vars

\* one worker, with register_worker also called directly with an explicit id
\* (no endpoint of the controller passes one)
NextApi == RegistryStep(OneSerial, MaxIds) \/ RegisterExplicit

SpecApi == Init /\ [][NextApi]_vars

\* the connection manager of one worker under commands and disconnect calls; the
\* clock stands still, so the monitor never wakes
NextManager ==
  \/ Heartbeat(OneSerial, MaxIds)
  \/ RegisterEndpoint(OneSerial, MaxIds)
  \/ RegisterDone(MaxSockets)
  \/ \E w \in DOMAIN sockets : SocketLost(w)
  \/ \E w \in DOMAIN sockets : ReceiveLoopExit(w)
  \/ \E w \in DOMAIN sockets : ReceiveLoopClosed(w)
  \/ \E t \in BagToSet(reconnect_tasks) : ReconnectStart(t)
  \/ \E t \in BagToSet(reconnect_tasks), o \in ConnectOutcomes : ReconnectAttemptDone(t, o)
  \/ \E t \in BagToSet(reconnect_tasks) : ReconnectWake(t)
  \/ SendCommand(MaxIds)
  \/ DisconnectWorker(MaxIds)
  \/ \E d \in disconnects : DisconnectWorkerClosed(d)

SpecManager == Init /\ [][NextManager]_vars

\* the registry of one worker under heartbeats, promotions, monitor passes and
\* commands; the receive loops and the reconnection tasks are not scheduled
NextCommand == RegistryStep(OneSerial, MaxIds) \/ SendCommand(MaxIds)

SpecCommand == Init /\ [][NextCommand]_vars

\* one worker for an unbounded time: the clock never stops, the event loop runs
\* every task that is ready (the monitor, the receive loops, the reconnection
\* tasks); heartbeats, lost sockets and the outcomes of connection attempts are
\* the environment's and get no fairness
NextRecovery == Next \/ TickRebased

SpecRecovery ==
  /\ Init
  /\ [][NextRecovery]_vars
  /\ WF_vars(Tick \/ TickRebased)
  /\ WF_vars(MonitorWake)
  /\ WF_vars(MonitorClosed)
  /\ WF_vars(\E o \in ConnectOutcomes : MonitorConnectDone(o))
  /\ WF_vars(\E w \in DOMAIN sockets : ReceiveLoopExit(w))
  /\ WF_vars(\E t \in BagToSet(reconnect_tasks) : ReconnectStart(t))
  /\ WF_vars(\E t \in BagToSet(reconnect_tasks), o \in ConnectOutcomes : ReconnectAttemptDone(t, o))
  /\ WF_vars(\E t \in BagToSet(reconnect_tasks) : ReconnectWake(t))

\* the registry of one worker under heartbeats, promotions, monitor passes and
\* requests to switch the data plane
NextSwitch == RegistryStep(OneSerial, MaxIds) \/ SwitchDataPlane(MaxIds)

SpecSwitch == Init /\ [][NextSwitch]_vars

\* the registry of one worker whose heartbeats differ in payload and timestamp
NextPayload == RegistryStep(OneSerial, MaxIds) \/ HeartbeatPayload

SpecPayload == Init /\ [][NextPayload]_vars

\* one worker and the controller for an unbounded time: the only heartbeats are the
\* worker's own; the controller sends no command on the connection it opens
\* (register_worker sends none, and nothing in the controller sends
\* update_worker_id), so the worker dispatches no frame
NextLifecycle ==
  \/ Tick
  \/ TickRebased
  \/ WorkerHeartbeat
  \/ RegisterEndpoint(OneSerial, MaxIds)
  \/ RegisterDone(MaxSockets)
  \/ \E w \in DOMAIN sockets : ReceiveLoopExit(w)
  \/ \E t \in BagToSet(reconnect_tasks) : ReconnectStart(t)
  \/ \E t \in BagToSet(reconnect_tasks), o \in ConnectOutcomes : ReconnectAttemptDone(t, o)
  \/ \E t \in BagToSet(reconnect_tasks) : ReconnectWake(t)
  \/ MonitorWake
  \/ MonitorClosed

SpecLifecycle ==
  /\ Init
  /\ [][NextLifecycle]_vars
  /\ WF_vars(Tick \/ TickRebased)
  /\ WF_vars(WorkerHeartbeat)
  /\ WF_vars(MonitorWake)
  /\ WF_vars(MonitorClosed)
  /\ WF_vars(\E w \in DOMAIN sockets : ReceiveLoopExit(w))
  /\ WF_vars(\E t \in BagToSet(reconnect_tasks) : ReconnectStart(t))
  /\ WF_vars(\E t \in BagToSet(reconnect_tasks), o \in ConnectOutcomes : ReconnectAttemptDone(t, o))
  /\ WF_vars(\E t \in BagToSet(reconnect_tasks) : ReconnectWake(t))

\* the heartbeat thread of one worker
NextHeartbeatLoop ==
  \/ \E d \in SendDurations : SendControlHeartbeat(d)
  \/ HeartbeatSleep
  \/ HeartbeatWait

SpecHeartbeatLoop == Init /\ [][NextHeartbeatLoop]_vars

\* the publisher of status changes and its subscribers
NextNotify ==
  \/ \E cb \in Subscribers : RegisterCallback(cb)
  \/ \E st \in {ACTIVE, INACTIVE} : PublishStatus(0, st)

SpecNotify == Init /\ [][NextNotify]_vars

\* the command server of one worker
NextWorker ==
  \/ AcceptConnection
  \/ \E c \in DOMAIN websockets, f \in Frames : DispatchFrame(c, f)
  \/ \E c \in DOMAIN websockets : PeerDisconnects(c)

SpecWorker == Init /\ [][NextWorker]_vars

----------------------------------------------------------------------------
(* Properties *)

SerialsOf(reg) == {reg[id].serial : id \in DOMAIN reg}
IdsOfSerial(reg, s) == {id \in DOMAIN reg : reg[id].serial = s}

\* C1: no serial is at once the key of a pending entry and the serial of a
\* Registration.
C1_SerialPendingOrRegistered ==
  \A id \in DOMAIN registered_workers :
    registered_workers[id].serial \notin DOMAIN pending_workers

\* C2: when a promotion reports success, its serial is not pending and is the serial
\* of exactly one Registration.
C2_SuccessRegistersOnce ==
  (last.op = "register" /\ last.result = "success") =>
    /\ last.serial \notin DOMAIN pending_workers
    /\ Cardinality(IdsOfSerial(registered_workers, last.serial)) = 1

C6_UnknownIdHeartbeatReturns ==
  (/\ last.op = "heartbeat"
   /\ last.worker_id >= 0
   /\ last.worker_id \notin DOMAIN registered_workers) => last.result # "raise"

\* C7: a heartbeat addressed to a registered worker id changes the timestamp of that
\* Registration and nothing else: no other field of it, no other Registration, no
\* pending entry.
C7_HeartbeatTouchesOwnTimestamp ==
  [][(last'.op = "heartbeat" /\ last'.worker_id \in DOMAIN registered_workers) =>
       /\ registered_workers' =
            [registered_workers EXCEPT ![last'.worker_id].timestamp = now]
       /\ pending_workers' = pending_workers
       /\ last'.result = "ok"]_vars

\* C7 witness: workers 0 and 1 are registered with different serials, the heartbeat
\* of worker 1 has just been handled and worker 0 keeps its older timestamp.
C7_Witness ==
  /\ last.op = "heartbeat"
  /\ last.worker_id = 1
  /\ {0, 1} \subseteq DOMAIN registered_workers
  /\ registered_workers[0].serial # registered_workers[1].serial
  /\ registered_workers[1].timestamp = now
  /\ registered_workers[0].timestamp < now

\* C8: promoting a serial that is not pending gives the unknown-serial result and
\* changes nothing (no entry, no id drawn, no connection attempt), and a promotion
\* gets past the lookup only for a pending serial.
C8_UnknownSerialRejected ==
  [][/\ (last'.op = "register" /\ last'.result = "unknown") =>
          /\ last'.serial \notin DOMAIN pending_workers
          /\ UNCHANGED <<pending_workers, pending_order, registered_workers,
                         registered_entries, worker_id_counter, promotions, disconnects,
                         connections, connection_tasks, sockets, reconnect_tasks>>
     /\ (last'.op = "register_start") => last'.serial \in DOMAIN pending_workers]_vars

\* C8 witness: serial s2 is registered and no longer pending, s1 is pending, and the
\* promotion of s2 has just been rejected.
C8_Witness ==
  /\ last.op = "register"
  /\ last.result = "unknown"
  /\ last.serial = "s2"
  /\ "s1" \in DOMAIN pending_workers
  /\ "s2" \in SerialsOf(registered_workers)

\* C9: when the connection attempt of a promotion fails, the Registration is in the
\* registered collection under the assigned id with status RECONNECTING and the
\* pending entry is gone.
C9_FailedConnectKeepsRegistration ==
  (last.op = "register" /\ last.result = "fail") =>
    /\ last.worker_id \in DOMAIN registered_workers
    /\ registered_workers[last.worker_id].status = RECONNECTING
    /\ last.serial \notin DOMAIN pending_workers

\* C10: the lifecycle of a Registration starts with status REGISTERED: a Registration
\* that enters the registered collection has status REGISTERED.
C10_CreatedRegistered ==
  [][\A id \in (DOMAIN registered_workers') \ (DOMAIN registered_workers) :
       registered_workers'[id].status = REGISTERED]_vars

\* C11: a successful connect for a worker opens exactly one socket with one receive
\* loop waiting on it, stores that socket and that loop under the worker id,
\* leaves the worker's Registration (if there is one) with status ACTIVE and does
\* not report a failure; a reconnection attempt or a promotion that reports
\* success has opened a socket.
C11_ConnectSuccessEffect ==
  [][/\ Len(sockets') \in {Len(sockets), Len(sockets) + 1}
     /\ (Len(sockets') = Len(sockets) + 1) =>
          LET ws == Len(sockets')
              w == sockets'[ws].wid
          IN /\ sockets'[ws] = [wid |-> w, state |-> "open", pc |-> "recv", cancelled |-> FALSE]
             /\ w \in DOMAIN connections' /\ connections'[w] = ws
             /\ w \in DOMAIN connection_tasks' /\ connection_tasks'[w] = ws
             /\ w \in DOMAIN registered_workers' => registered_workers'[w].status = ACTIVE
             /\ last'.worker_id = w
             /\ last'.result \notin {"false", "fail", "caught"}
     /\ (\/ last'.op = "reconnect_attempt" /\ last'.result = "true"
         \/ last'.op = "register" /\ last'.result = "success"
         \/ last'.op = "monitor_connect" /\ last'.result = "true")
          => Len(sockets') = Len(sockets) + 1]_vars

\* C11 witness: the reconnection procedure of worker 0 has just connected: the second
\* socket is stored for worker 0, whose status went from RECONNECTING to ACTIVE.
C11_Witness ==
  /\ last.op = "reconnect_attempt"
  /\ last.result = "true"
  /\ Len(sockets) = 2
  /\ sockets[1].pc = "done"
  /\ connections[0] = 2
  /\ connection_tasks[0] = 2
  /\ registered_workers[0].status = ACTIVE

\* C12: a connection attempt that fails, whatever the failure, returns false to its
\* caller: the attempt made by the reconnection procedure never ends by raising.
C12_FailedConnectReturnsFalse ==
  (last.op = "reconnect_attempt") => last.result \in {"true", "false"}

\* C13: a disconnect that does not allow reconnection (disconnect_worker, or the
\* staleness disconnect of a monitor pass) schedules no reconnection procedure
\* and leaves no Registration with status RECONNECTING that did not have it.
C13_NoReconnectAfterDisconnect ==
  [][(last'.op \in {"monitor", "monitor_closed", "disconnect_worker", "disconnect_closed"}) =>
       /\ reconnect_tasks' = reconnect_tasks
       /\ \A id \in DOMAIN registered_workers' :
            (id \in DOMAIN registered_workers /\ registered_workers'[id].status = RECONNECTING)
              => registered_workers[id].status = RECONNECTING]_vars

\* C14: the reconnection procedure of a worker whose connection attempts all fail
\* goes on after each failed attempt (the attempt is counted and the procedure
\* sleeps) until max_reconnect_attempts attempts are made, and when it gives up
\* the worker's Registration has status INACTIVE.
C14_ReconnectionExhausts ==
  [][/\ (last'.op = "reconnect_attempt" /\ last'.result # "true") =>
          \E t \in BagToSet(reconnect_tasks') :
             /\ t.wid = last'.worker_id
             /\ t.pc = "sleeping"
             /\ t.attempts \in 1 .. max_reconnect_attempts
     /\ (last'.op = "reconnect_wake" /\ last'.result = "exhausted") =>
          /\ \E t \in BagToSet(reconnect_tasks) :
                t.wid = last'.worker_id /\ t.attempts = max_reconnect_attempts
          /\ last'.worker_id \in DOMAIN registered_workers' =>
                registered_workers'[last'.worker_id].status = INACTIVE]_vars

\* C15: at no time are two reconnection procedures alive for the same worker id.
C15_OneReconnectionPerWorker ==
  \A t1 \in BagToSet(reconnect_tasks) :
    /\ CopiesIn(t1, reconnect_tasks) = 1
    /\ \A t2 \in BagToSet(reconnect_tasks) : t1.wid = t2.wid => t1 = t2

\* C16: send_command for a worker id with no stored connection reports that there is
\* no connection (it returns False, nothing is raised) and changes neither the
\* registry nor the maps, sockets and tasks of the connection manager.
C16_SendWithoutConnection ==
  [][(last'.op = "send_command" /\ last'.worker_id \notin DOMAIN connections) =>
       /\ last'.result = "no_connection"
       /\ UNCHANGED <<pending_workers, pending_order, registered_workers, registered_entries,
                      worker_id_counter, connections, connection_tasks, sockets,
                      reconnect_tasks>>]_vars

\* C16 witness: worker 0 is registered, its connection is gone and its reconnection
\* procedure is running; the command for it was refused.
C16_Witness ==
  /\ last.op = "send_command"
  /\ last.worker_id = 0
  /\ last.result = "no_connection"
  /\ 0 \in DOMAIN registered_workers
  /\ registered_workers[0].status = RECONNECTING
  /\ 0 \notin DOMAIN connections
  /\ reconnect_tasks # EmptyBag

\* C17: every write failure inside send_command is handled like a detected
\* disconnection: the handle is removed and a reconnection procedure is started.
C17_SendFailureDisconnects ==
  [][(last'.op = "send_command" /\ last'.result \in {"closed", "error"}) =>
       /\ last'.worker_id \notin DOMAIN connections'
       /\ BagCardinality(reconnect_tasks') = BagCardinality(reconnect_tasks) + 1]_vars

\* C18: a monitor pass leaves every Registration whose timestamp is older than
\* now - timeout_threshold with status INACTIVE and without a stored connection,
\* whether the pass handles it in one go or waits for the socket to close.
C18_StaleWorkerInactive ==
  [][/\ (last'.op = "monitor" /\ monitor'.pc = "sleep") =>
          \A id \in DOMAIN registered_workers :
            registered_workers[id].timestamp < now - timeout_threshold =>
              /\ id \in DOMAIN registered_workers'
              /\ registered_workers'[id].status = INACTIVE
              /\ id \notin DOMAIN connections'
     /\ (last'.op = "monitor_closed" /\ monitor'.pc # "dead"
           /\ monitor.wid \in DOMAIN registered_workers') =>
          /\ registered_workers'[monitor.wid].status = INACTIVE
          /\ monitor.wid \notin DOMAIN connections']_vars

\* C19: in a monitor pass, a Registration that is not timed out gets a connection
\* attempt exactly when its status is INACTIVE: the pass stops to connect only
\* at such a worker, at a slot it has not visited yet, it starts no reconnection
\* procedure for that worker, and it passes over no such worker.
C19_InactiveFreshGetsOneAttempt ==
  [][(last'.op \in {"monitor", "monitor_closed", "monitor_connect"} /\ monitor'.pc # "dead") =>
       LET thr == IF last'.op = "monitor" THEN now - timeout_threshold ELSE monitor.threshold
           from == IF last'.op = "monitor" THEN 0 ELSE monitor.pos
           to == IF monitor'.pc = "sleep" THEN Len(registered_entries) + 1 ELSE monitor'.pos
           InactiveFresh(id) == /\ id \in DOMAIN registered_workers
                                /\ registered_workers[id].status = INACTIVE
                                /\ registered_workers[id].timestamp >= thr
       IN /\ \A i \in (from + 1) .. (to - 1) :
               registered_entries[i] # DictDummy => ~InactiveFresh(registered_entries[i])
          /\ monitor'.pc = "connecting" =>
               /\ to > from
               /\ monitor'.wid = registered_entries[to]
               /\ InactiveFresh(monitor'.wid)
               /\ \A t \in BagToSet(reconnect_tasks') :
                    t.wid = monitor'.wid =>
                      CopiesIn(t, reconnect_tasks') = CopiesIn(t, reconnect_tasks)]_vars

\* C19 witness: the reconnection procedure of worker 0 has given up, the worker is
\* INACTIVE with a timestamp that is not timed out, and the pass that just began
\* is waiting for its one connection attempt.
C19_Witness ==
  /\ last.op = "monitor"
  /\ monitor.pc = "connecting"
  /\ monitor.wid = 0
  /\ registered_workers[0].status = INACTIVE
  /\ registered_workers[0].timestamp >= monitor.threshold
  /\ reconnect_tasks = EmptyBag

\* C20: the monitor task keeps running: no exception raised while a pass handles a
\* worker ends the task.
C20_MonitorKeepsRunning == monitor.pc # "dead"

\* C21: the step that begins a monitor pass removes every pending entry whose
\* timestamp is older than now - timeout_threshold, keeps every other pending
\* entry as it is, and goes on with the registered workers (the task does not end).
C21_StalePendingRemoved ==
  [][(last'.op = "monitor") =>
       /\ monitor'.pc # "dead"
       /\ \A s \in DOMAIN pending_workers :
            IF pending_workers[s].timestamp < now - timeout_threshold
            THEN s \notin DOMAIN pending_workers'
            ELSE s \in DOMAIN pending_workers' /\ pending_workers'[s] = pending_workers[s]]_vars

\* C22: between two consecutive states the status of a Registration either stays
\* the same or changes by one of the listed transitions.
C22_ListedTransitionsOnly ==
  [][LET listed == {<<REGISTERED, ACTIVE>>, <<REGISTERED, RECONNECTING>>,
                    <<ACTIVE, RECONNECTING>>, <<RECONNECTING, ACTIVE>>,
                    <<RECONNECTING, INACTIVE>>, <<ACTIVE, INACTIVE>>, <<INACTIVE, ACTIVE>>}
     IN \A id \in (DOMAIN registered_workers) \cap (DOMAIN registered_workers') :
          \/ registered_workers'[id].status = registered_workers[id].status
          \/ <<registered_workers[id].status, registered_workers'[id].status>> \in listed]_vars

\* C23: a frame that is not valid JSON, or is valid JSON but not an object, invokes
\* no handler and leaves its connection open with the dispatcher receiving on it.
C23_MalformedFrameSkipped ==
  [][(last'.op = "ws_frame" /\ last'.result \in {"invalid_json", "not_object"}) =>
       /\ websockets'[last'.websocket].handled = websockets[last'.websocket].handled
       /\ websockets'[last'.websocket].state = "open"
       /\ websockets'[last'.websocket].pc = "receive"]_vars

\* C24: after a command handler has raised, the connection of the frame is open and
\* the dispatcher is still receiving on it.
C24_HandlerExceptionSurvived ==
  [][(last'.op = "ws_frame" /\ last'.result = "handler_raises") =>
       /\ websockets'[last'.websocket].state = "open"
       /\ websockets'[last'.websocket].pc = "receive"]_vars

\* C25: the connection slot holds the most recently accepted connection while that
\* connection is open, and is empty only when no accepted connection is open.
C25_SlotHoldsLatestOpen ==
  LET open == {c \in DOMAIN websockets : websockets[c].state = "open"}
  IN /\ (Len(websockets) \in open) => current_websocket = Len(websockets)
     /\ (current_websocket = 0) => open = {}

\* C26: a published status change reaches every subscriber once, in subscription
\* order, with the worker id and the status, whether or not subscribers raise,
\* and the publisher returns.
C26_EverySubscriberNotified ==
  [][(last'.op = "publish") =>
       /\ invocations' = invocations \o
            [i \in 1 .. Len(callbacks) |-> Invocation(i, last'.worker_id, last'.status)]
       /\ last'.result = "returned"]_vars

\* C26 witness: the first of three subscribers raises, and the status change just
\* published has reached the second and the third after it.
C26_Witness ==
  /\ last.op = "publish"
  /\ Len(callbacks) = 3
  /\ callbacks[1] = "raises"
  /\ callbacks[3] = "returns"
  /\ Len(invocations) = 3
  /\ invocations[3] = Invocation(3, 0, last.status)

\* worker 0 is registered and its last heartbeat is not older than timeout_threshold
Fresh0 ==
  /\ 0 \in DOMAIN registered_workers
  /\ registered_workers[0].timestamp >= now - timeout_threshold

\* no connection attempt is refused or times out
EndpointAccepts ==
  last.op \in {"register", "reconnect_attempt", "monitor_connect"} =>
    last.result \notin {"fail", "false", "caught", "raise"}

MonitorRuns == monitor.pc # "dead"

\* the model can still open a socket
RoomForSocket == Len(sockets) < MaxSockets

ActiveOpen0 ==
  /\ 0 \in DOMAIN registered_workers
  /\ registered_workers[0].status = ACTIVE
  /\ 0 \in DOMAIN connections
  /\ sockets[connections[0]].state = "open"

StaleInactive0 ==
  /\ 0 \in DOMAIN registered_workers
  /\ registered_workers[0].status = INACTIVE
  /\ registered_workers[0].timestamp < now - timeout_threshold

\* C27: a registered worker that is stale with status INACTIVE, whose heartbeats
\* then resume and stay fresh while every connection attempt is accepted and the
\* monitor keeps running, eventually has status ACTIVE with an open connection.
C27_StaleWorkerRecovers ==
  [](StaleInactive0 =>
       ((<>[]Fresh0 /\ []EndpointAccepts /\ []MonitorRuns /\ []RoomForSocket) => <>ActiveOpen0))

\* C28: a heartbeat without worker id for a serial that is already pending replaces
\* the stored payload by the heartbeat's and stamps it with the controller's time.
C28_PendingPayloadReplaced ==
  [][(/\ last'.op = "heartbeat"
      /\ last'.worker_id = Unassigned
      /\ last'.serial \in DOMAIN pending_workers)
     => /\ pending_workers'[last'.serial].data_plane = last'.data_plane
        /\ pending_workers'[last'.serial].timestamp = now']_vars

\* C29: the timestamp a worker sends has no influence on the controller's state: the
\* registry after a heartbeat is the one any other sent timestamp gives, the
\* timestamp stored by a heartbeat is the controller's time, and so is the one of a
\* Registration being created.
C29_SenderTimestampIgnored ==
  [][/\ (last'.op = "heartbeat" /\ last'.result = "ok") =>
          \A ts \in ReporterTimestamps :
            LET hb == [worker_id |-> last'.worker_id, serial |-> last'.serial,
                       data_plane |-> last'.data_plane, timestamp |-> ts]
            IN IF hb.worker_id = Unassigned
               THEN /\ pending_workers' =
                         IF hb.serial \in DOMAIN pending_workers
                         THEN HeartbeatPendingKnown(pending_workers, hb, now)
                         ELSE HeartbeatPendingNew(pending_workers, hb, now)
                    /\ registered_workers' =
                         IF hb.serial \in DOMAIN pending_workers
                         THEN registered_workers
                         ELSE HeartbeatDropRegistered(registered_workers, registered_entries,
                                                      hb.serial)
                    /\ pending_workers'[hb.serial].timestamp = now
               ELSE /\ pending_workers' = pending_workers
                    /\ registered_workers' =
                         HeartbeatRegistered(registered_workers, hb.worker_id, now)
                    /\ registered_workers'[hb.worker_id].timestamp = now
     /\ (last'.op = "register_start") =>
          \A p \in promotions' \ promotions : p.registration.timestamp = now]_vars

\* C29 witness: a heartbeat sent with timestamp 7 has just been stored as a new
\* pending entry at controller time 10, and the entry carries 10.
C29_Witness ==
  /\ last.op = "heartbeat"
  /\ last.worker_id = Unassigned
  /\ last.timestamp = 7
  /\ now = 10
  /\ last.serial \in DOMAIN pending_workers
  /\ pending_workers[last.serial].timestamp = 10

C31_OneCallPerCommand ==
  [][(last'.op = "ws_frame") =>
       LET c == last'.websocket
           f == last'.result
       IN /\ (f \in {"handled", "handler_raises", "update_worker_id"}) =>
               websockets'[c].calls =
                 Append(websockets[c].calls, [command |-> Command(f), data |-> Data(f)])
          /\ (f \in {"no_command", "empty_command", "unknown_command"}) =>
               /\ websockets'[c].calls = websockets[c].calls
               /\ websockets'[c].pc = "receive"
               /\ websockets'[c].state = "open"]_vars

\* C31 witness: one connection has received two registered commands and their
\* handlers were called in that order; another has received an unregistered
\* command, called nothing and is still receiving.
C31_Witness ==
  \E c, d \in DOMAIN websockets :
    /\ websockets[c].frames = <<"update_worker_id", "handled">>
    /\ websockets[c].calls = <<[command |-> "update_worker_id", data |-> "{worker_id: 0}"],
                               [command |-> "switch_to_ethernet", data |-> "{}"]>>
    /\ websockets[d].frames = <<"unknown_command">>
    /\ websockets[d].calls = <<>>
    /\ websockets[d].pc = "receive"
    /\ websockets[d].state = "open"

\* C32: two consecutive heartbeat sends of a worker start one heartbeat interval
\* (5 s) apart, and the staleness threshold is three times that period.
C32_ThresholdIsThreePeriods ==
  heartbeat_task.sent >= 2 =>
    /\ heartbeat_task.period = heartbeat_interval
    /\ timeout_threshold = 3 * heartbeat_task.period

\* is_connected(worker_id)
is_connected(id) ==
  /\ id \in DOMAIN connections
  /\ sockets[connections[id]].state = "open"

\* no operation of the connection manager is in progress for worker id: no promotion,
\* disconnect call, reconnection procedure or monitor pass is under way and every
\* receive loop of the worker has ended or waits on an open socket
ManagerIdle(id) ==
  /\ \A p \in promotions : p.worker_id # id
  /\ \A d \in disconnects : d.wid # id
  /\ \A t \in BagToSet(reconnect_tasks) : t.wid # id
  /\ monitor.pc \in {"sleep", "dead"}
  /\ \A w \in DOMAIN sockets :
       sockets[w].wid = id =>
         \/ sockets[w].pc = "done"
         \/ sockets[w].pc = "recv" /\ sockets[w].state = "open" /\ ~sockets[w].cancelled

\* C33: while no operation of the connection manager is in progress for a
\* registered worker, its status is ACTIVE exactly when the manager holds an open
\* connection for its id.
C33_StatusMatchesConnection ==
  \A id \in DOMAIN registered_workers :
    ManagerIdle(id) => ((registered_workers[id].status = ACTIVE) <=> is_connected(id))

\* C34: a promotion whose pending entry is gone when its connection attempt returns
\* (a monitor pass or another promotion removed it during the await) either
\* leaves the registry as it was or returns success with the serial registered
\* under exactly one worker id; it does not raise after changing the registry.
C34_PromotionAtomic ==
  [][(/\ last'.op = "register"
      /\ last'.worker_id # Unassigned
      /\ last'.serial \notin DOMAIN pending_workers)
     => \/ UNCHANGED <<pending_workers, pending_order, registered_workers, registered_entries>>
        \/ /\ last'.result = "success"
           /\ Cardinality(IdsOfSerial(registered_workers', last'.serial)) = 1]_vars

\* C35: a worker id is a key of the connection map exactly when it is a key of the
\* receive-task map.
C35_ConnectionsMatchTasks == DOMAIN connections = DOMAIN connection_tasks

\* C35 witness: a worker had a connection and a receive task stored, and a
\* disconnection has removed both.
C35_Witness ==
  /\ \E w \in DOMAIN sockets : sockets[w].wid = 0
  /\ 0 \notin DOMAIN connections
  /\ 0 \notin DOMAIN connection_tasks
  /\ last.op \in {"receive_loop_exit", "monitor_closed"}
  /\ last.worker_id = 0

\* the worker ids the connection manager holds a connection for, or runs a receive
\* loop or a reconnection procedure for
ManagedIds ==
  DOMAIN connections
    \cup {sockets[w].wid : w \in {x \in DOMAIN sockets : sockets[x].pc # "done"}}
    \cup {t.wid : t \in BagToSet(reconnect_tasks)}

\* C36: every worker id the connection manager holds a connection for, or runs a
\* receive loop or a reconnection procedure for, is a key of registered_workers.
C36_ManagedIdsRegistered == ManagedIds \subseteq DOMAIN registered_workers

\* the open sockets of worker id whose receive loop has not ended
OpenSockets(id) ==
  {w \in DOMAIN sockets :
     sockets[w].wid = id /\ sockets[w].state = "open" /\ sockets[w].pc # "done"}

\* C37: a worker id never has two open connections with a running receive loop,
\* and an open connection of a worker id is the one stored for it.
C37_OneOpenConnection ==
  \A w \in DOMAIN sockets :
    LET id == sockets[w].wid
    IN /\ Cardinality(OpenSockets(id)) <= 1
       /\ w \in OpenSockets(id) => (id \in DOMAIN connections /\ connections[id] = w)

\* the promotion of serial s1 has just succeeded
Promoted ==
  /\ last.op = "register"
  /\ last.result = "success"
  /\ last.serial = "s1"

\* C38: after the promotion of a heartbeating worker has succeeded, the worker's
\* heartbeats eventually carry the assigned worker id and its serial stays
\* registered.
C38_PromotedWorkerStays ==
  [](Promoted =>
       /\ <>(self_worker_id \in IdsOfSerial(registered_workers, "s1"))
       /\ []("s1" \in SerialsOf(registered_workers)))

====
